---- MODULE Spec2Model ----
(***************************************************************************)
(* Last Mile Delivery dashboard (src/app.py): the data pipeline of the     *)
(* Streamlit script.  The script is re-executed from top to bottom on      *)
(* every change of a sidebar selectbox; the CSV is cached and static.      *)
(*                                                                         *)
(* Numbers.  A float cell is modelled as an exact rational <<num, den>>    *)
(* in lowest terms with den > 0, and NaN (pandas' null) as <<>>.  A null   *)
(* text cell is the empty CSV field "".  A standard deviation is kept as   *)
(* its square (the variance), so that a comparison with mean + std is      *)
(* decided exactly.                                                        *)
(***************************************************************************)
EXTENDS Integers, Sequences, FiniteSets, TLC

\* ------------------------------------------------------------------ bounds
\* Largest number of data rows of the CSV file.
MaxRows == 3

\* ----------------------------------------------------------------- numbers
NaN == <<>>
NULL == ""

Abs(a) == IF a < 0 THEN 0 - a ELSE a

RECURSIVE GCD(_, _)
GCD(a, b) == IF b = 0 THEN a ELSE GCD(b, a % b)

Rat(n, d) == LET g == GCD(Abs(n), d) IN <<n \div g, d \div g>>
Num(n) == <<n, 1>>

isna(x) == x = NaN

Add(a, b) == IF isna(a) \/ isna(b) THEN NaN
             ELSE Rat(a[1] * b[2] + b[1] * a[2], a[2] * b[2])
Sub(a, b) == IF isna(a) \/ isna(b) THEN NaN
             ELSE Rat(a[1] * b[2] - b[1] * a[2], a[2] * b[2])
Mul(a, b) == IF isna(a) \/ isna(b) THEN NaN
             ELSE Rat(a[1] * b[1], a[2] * b[2])
DivInt(a, k) == IF isna(a) \/ k = 0 THEN NaN ELSE Rat(a[1], a[2] * k)

\* IEEE comparisons: any comparison with NaN is False.
Lt(a, b) == ~isna(a) /\ ~isna(b) /\ a[1] * b[2] < b[1] * a[2]
Le(a, b) == ~isna(a) /\ ~isna(b) /\ a[1] * b[2] <= b[1] * a[2]
Gt(a, b) == Lt(b, a)

\* x > avg + std, where stdsq is the square of std (std >= 0).
GtMeanPlusStd(x, avg, stdsq) ==
    /\ ~isna(x) /\ ~isna(avg) /\ ~isna(stdsq)
    /\ Gt(x, avg)
    /\ Gt(Mul(Sub(x, avg), Sub(x, avg)), stdsq)

\* ------------------------------------------------------------------ Series
Range(s) == {s[i] : i \in 1..Len(s)}

RECURSIVE Sum(_)
Sum(s) == IF Len(s) = 0 THEN Num(0) ELSE Add(Head(s), Sum(Tail(s)))

dropna(s) == SelectSeq(s, LAMBDA x : ~isna(x))

\* Series.mean(): skips NaN; NaN when nothing is left.
mean(s) == LET v == dropna(s) IN DivInt(Sum(v), Len(v))

\* Mutant: the population standard deviation (ddof = 0).
std_population(s) ==
    LET v == dropna(s)
        m == mean(s)
        sq == [i \in 1..Len(v) |-> Mul(Sub(v[i], m), Sub(v[i], m))]
    IN IF Len(v) < 1 THEN NaN ELSE DivInt(Sum(sq), Len(v))

\* Series.std(): sample standard deviation (ddof = 1) over the non-null
\* values, returned squared; NaN with fewer than two values.
std(s) ==
    LET v == dropna(s)
        m == mean(s)
        sq == [i \in 1..Len(v) |-> Mul(Sub(v[i], m), Sub(v[i], m))]
    IN IF Len(v) < 2 THEN NaN ELSE DivInt(Sum(sq), Len(v) - 1)

RECURSIVE InsertNum(_, _)
InsertNum(x, s) ==
    IF Len(s) = 0 THEN <<x>>
    ELSE IF Le(x, Head(s)) THEN <<x>> \o s
    ELSE <<Head(s)>> \o InsertNum(x, Tail(s))

RECURSIVE SortNum(_)
SortNum(s) == IF Len(s) = 0 THEN <<>> ELSE InsertNum(Head(s), SortNum(Tail(s)))

\* Series.median(): middle of the sorted non-null values, the mean of the
\* two middle ones for an even count; NaN when nothing is left.
median(s) ==
    LET v == SortNum(dropna(s))
        n == Len(v)
    IN IF n = 0 THEN NaN
       ELSE IF n % 2 = 1 THEN v[(n + 1) \div 2]
       ELSE DivInt(Add(v[n \div 2], v[n \div 2 + 1]), 2)

\* ----------------------------------------------------------------- strings
\* Python compares str by code point: upper case sorts before lower case.
CodePointOrder ==
    <<"", "All", "Food", "High", "Low", "Metro", "Stormy", "Sunny", "Toys",
      "Unknown", "Urban", "bike", "sunny", "van">>

RankOf ==
    [s \in {CodePointOrder[i] : i \in 1..Len(CodePointOrder)} |->
        CHOOSE i \in 1..Len(CodePointOrder) : CodePointOrder[i] = s]
StrRank(s) == RankOf[s]
StrLt(a, b) == StrRank(a) < StrRank(b)

RECURSIVE TupleLt(_, _)
TupleLt(a, b) ==
    IF Len(a) = 0 THEN Len(b) > 0
    ELSE IF Len(b) = 0 THEN FALSE
    ELSE IF Head(a) = Head(b) THEN TupleLt(Tail(a), Tail(b))
    ELSE StrLt(Head(a), Head(b))

\* --------------------------------------------------------------- DataFrame
\* A DataFrame is [columns |-> set of names, rows |-> sequence of rows]; a
\* row maps every column, and "index" (the RangeIndex label), to its cell.
Col(frame, c) == [i \in 1..Len(frame.rows) |-> frame.rows[i][c]]

WithCol(frame, c, vals) ==
    [columns |-> frame.columns \cup {c},
     rows |-> [i \in 1..Len(frame.rows) |->
                 [k \in DOMAIN frame.rows[i] \cup {c} |->
                     IF k = c THEN vals[i] ELSE frame.rows[i][k]]]]

\* frame[mask]: the rows whose mask is True, in order, labels kept.
Where(frame, mask) ==
    LET at == SelectSeq([i \in 1..Len(frame.rows) |-> i], LAMBDA i : mask[i])
    IN [frame EXCEPT !.rows = [j \in 1..Len(at) |-> frame.rows[at[j]]]]

\* frame[col] == value
Eq(frame, c, value) == [i \in 1..Len(frame.rows) |-> frame.rows[i][c] = value]

fillna_str(s, v) == [i \in 1..Len(s) |-> IF s[i] = NULL THEN v ELSE s[i]]
fillna_num(s, v) == [i \in 1..Len(s) |-> IF isna(s[i]) THEN v ELSE s[i]]

RECURSIVE sorted(_)
sorted(S) ==
    IF S = {} THEN <<>>
    ELSE LET m == CHOOSE x \in S : \A y \in S \ {x} : StrLt(x, y)
         IN <<m>> \o sorted(S \ {m})

RECURSIVE sorted_keys(_)
sorted_keys(S) ==
    IF S = {} THEN <<>>
    ELSE LET m == CHOOSE x \in S : \A y \in S \ {x} : TupleLt(x, y)
         IN <<m>> \o sorted_keys(S \ {m})

BoolNum(b) == IF b THEN Num(1) ELSE Num(0)

\* frame.groupby(keys)[col].mean().reset_index(), vals being frame[col] as
\* numbers: one row per key present in the frame (rows with a null key are
\* dropped), sorted by key; the value is the mean of the group's non-null
\* cells.
groupby_mean(frame, keys, vals) ==
    LET KeyOf(i) == [j \in 1..Len(keys) |-> frame.rows[i][keys[j]]]
        at == SelectSeq([i \in 1..Len(frame.rows) |-> i],
                        LAMBDA i : \A j \in 1..Len(keys) :
                                      frame.rows[i][keys[j]] # NULL)
        ks == sorted_keys({KeyOf(at[i]) : i \in 1..Len(at)})
    IN [g \in 1..Len(ks) |->
          [key |-> ks[g],
           value |-> LET grp == SelectSeq(at, LAMBDA i : KeyOf(i) = ks[g])
                     IN mean([i \in 1..Len(grp) |-> vals[grp[i]]])]]

\* ------------------------------------------------------------- the script
cat_cols == <<"Weather", "Traffic", "Vehicle", "Area", "Category">>

NoFrame == [columns |-> {}, rows |-> <<>>]
AllSel == [c \in Range(cat_cols) |-> "All"]

\* The script's globals before its first statement: df = load_data().copy();
\* widgets is the session's widget state; error is the line of the uncaught
\* exception that ended the run, 0 while there is none.
Start(file, widgets) ==
    [df |-> file, avg_delivery_time |-> NaN, std_delivery_time |-> NaN,
     late_percentage |-> NaN, opts |-> [c \in Range(cat_cols) |-> <<>>],
     sel |-> widgets, filtered_df |-> NoFrame, k3 |-> 0,
     fig1 |-> <<>>, fig2 |-> <<>>, fig4 |-> <<>>, late_df |-> <<>>,
     error |-> 0]

RECURSIVE FillCols(_, _)
FillCols(frame, cols) ==
    IF Len(cols) = 0 THEN frame
    ELSE LET c == Head(cols)
             f == IF c \in frame.columns
                  THEN WithCol(frame, c, fillna_str(Col(frame, c), "Unknown"))
                  ELSE frame
         IN FillCols(f, Tail(cols))

\* Mutant: the loop reads every column without asking whether it exists.
fill_categorical_unchecked(env) ==
    IF env.error # 0 THEN env
    ELSE IF \E j \in 1..Len(cat_cols) : cat_cols[j] \notin env.df.columns
    THEN LET first == CHOOSE j \in 1..Len(cat_cols) :
                         /\ cat_cols[j] \notin env.df.columns
                         /\ \A i \in 1..(j - 1) : cat_cols[i] \in env.df.columns
         IN [env EXCEPT !.df = FillCols(@, SubSeq(cat_cols, 1, first - 1)),
                        !.error = 92]
    ELSE [env EXCEPT !.df = FillCols(@, cat_cols)]

fill_categorical(env) ==
    IF env.error # 0 THEN env
    ELSE [env EXCEPT !.df = FillCols(@, cat_cols)]

fill_agent_rating(env) ==
    IF env.error = 0 /\ "Agent_Rating" \in env.df.columns
    THEN [env EXCEPT !.df = WithCol(@, "Agent_Rating",
              fillna_num(Col(@, "Agent_Rating"), mean(Col(@, "Agent_Rating"))))]
    ELSE env

fill_agent_age(env) ==
    IF env.error = 0 /\ "Agent_Age" \in env.df.columns
    THEN [env EXCEPT !.df = WithCol(@, "Agent_Age",
              fillna_num(Col(@, "Agent_Age"), median(Col(@, "Agent_Age"))))]
    ELSE env

\* Mutant: the statistics and the flags follow the current selection.
lateness_of_view(env) ==
    IF env.error # 0 THEN env
    ELSE IF "Delivery_Time" \notin env.df.columns THEN [env EXCEPT !.error = 100]
    ELSE LET InView(r) == \A c \in Range(cat_cols) \cap env.df.columns :
                             env.sel[c] = "All" \/ r[c] = env.sel[c]
             all == Col(env.df, "Delivery_Time")
             t == Col(Where(env.df, [i \in 1..Len(env.df.rows) |->
                                       InView(env.df.rows[i])]),
                      "Delivery_Time")
             avg == mean(t)
             sd == std(t)
             late == [i \in 1..Len(all) |-> GtMeanPlusStd(all[i], avg, sd)]
         IN [env EXCEPT !.avg_delivery_time = avg,
                        !.std_delivery_time = sd,
                        !.df = WithCol(@, "Is_Late", late),
                        !.late_percentage =
                            Mul(mean([i \in 1..Len(t) |->
                                        BoolNum(GtMeanPlusStd(t[i], avg, sd))]),
                                Num(100))]

lateness(env) ==
    IF env.error # 0 THEN env
    ELSE IF "Delivery_Time" \notin env.df.columns THEN [env EXCEPT !.error = 100]
    ELSE LET t == Col(env.df, "Delivery_Time")
             avg == mean(t)
             sd == std(t)
             late == [i \in 1..Len(t) |-> GtMeanPlusStd(t[i], avg, sd)]
         IN [env EXCEPT !.avg_delivery_time = avg,
                        !.std_delivery_time = sd,
                        !.df = WithCol(@, "Is_Late", late),
                        !.late_percentage =
                            Mul(mean([i \in 1..Len(t) |-> BoolNum(late[i])]),
                                Num(100))]

\* Mutant: the lower boundary is taken on the wrong side.
age_group_le(age) ==
    IF Le(age, Num(25)) THEN "<25"
    ELSE IF Le(age, Num(40)) THEN "25-40"
    ELSE "40+"

age_group(age) ==
    IF Lt(age, Num(25)) THEN "<25"
    ELSE IF Le(age, Num(40)) THEN "25-40"
    ELSE "40+"

apply_age_group(env) ==
    IF env.error # 0 THEN env
    ELSE IF "Agent_Age" \notin env.df.columns THEN [env EXCEPT !.error = 110]
    ELSE LET a == Col(env.df, "Agent_Age")
         IN [env EXCEPT !.df = WithCol(@, "Agent_Age_Group",
                                       [i \in 1..Len(a) |-> age_group(a[i])])]

options(series) ==
    <<"All">> \o sorted(Range(SelectSeq(series, LAMBDA x : x # NULL)))

\* st.sidebar.selectbox: the widget's stored value while it is one of the
\* options, the first option otherwise.
selectbox(opts, value) == IF value \in Range(opts) THEN value ELSE opts[1]

\* Mutant: cascading filters, each list holding only the values left by the
\* selections of the other selectboxes.
RECURSIVE Widgets_cascading(_, _)
Widgets_cascading(env, k) ==
    IF k > Len(cat_cols) THEN env
    ELSE LET c == cat_cols[k]
             Others(r) == \A d \in (Range(cat_cols) \cap env.df.columns) \ {c} :
                             env.sel[d] = "All" \/ r[d] = env.sel[d]
         IN IF c \notin env.df.columns
            THEN [env EXCEPT !.error = 119 + k]
            ELSE LET o == options(Col(Where(env.df,
                                  [i \in 1..Len(env.df.rows) |->
                                      Others(env.df.rows[i])]), c))
                 IN Widgets_cascading([env EXCEPT !.opts[c] = o,
                                                  !.sel[c] = selectbox(o, @)],
                                      k + 1)

RECURSIVE Widgets(_, _)
Widgets(env, k) ==
    IF k > Len(cat_cols) THEN env
    ELSE LET c == cat_cols[k]
         IN IF c \notin env.df.columns
            THEN [env EXCEPT !.error = 119 + k]
            ELSE LET o == options(Col(env.df, c))
                 IN Widgets([env EXCEPT !.opts[c] = o,
                                        !.sel[c] = selectbox(o, @)], k + 1)

sidebar(env) == IF env.error # 0 THEN env ELSE Widgets(env, 1)

\* Mutant: every filter starts again from the full table, so the last one
\* selected is the only one applied.
FilterCols_last_wins(frame, sel, k) ==
    LET on == {j \in k..Len(cat_cols) : sel[cat_cols[j]] # "All"}
        last == CHOOSE j \in on : \A i \in on : i <= j
    IN IF on = {} THEN frame
       ELSE Where(frame, Eq(frame, cat_cols[last], sel[cat_cols[last]]))

\* Mutant: the sentinel "All" is compared like any other value.
FilterCols_no_sentinel(frame, sel, k) ==
    Where(frame, [i \in 1..Len(frame.rows) |->
                    \A j \in k..Len(cat_cols) :
                        frame.rows[i][cat_cols[j]] = sel[cat_cols[j]]])

RECURSIVE FilterCols(_, _, _)
FilterCols(frame, sel, k) ==
    IF k > Len(cat_cols) THEN frame
    ELSE LET c == cat_cols[k]
             f == IF sel[c] # "All"
                  THEN Where(frame, Eq(frame, c, sel[c]))
                  ELSE frame
         IN FilterCols(f, sel, k + 1)

apply_filters(env) ==
    IF env.error # 0 THEN env
    ELSE [env EXCEPT !.filtered_df = FilterCols(env.df, env.sel, 1)]

kpi_cards(env) ==
    IF env.error # 0 THEN env
    ELSE [env EXCEPT !.k3 = Len(env.filtered_df.rows)]

\* Mutant: the charts are drawn from the full table.
charts_of_full_table(env) ==
    IF env.error # 0 THEN env
    ELSE LET f == env.df
             time == Col(f, "Delivery_Time")
             late == [i \in 1..Len(f.rows) |-> BoolNum(f.rows[i]["Is_Late"])]
             e2 == [env EXCEPT
                      !.fig1 = groupby_mean(f, <<"Weather", "Traffic">>, time),
                      !.fig2 = groupby_mean(f, <<"Vehicle">>, time)]
         IN IF "Agent_Rating" \notin f.columns THEN [e2 EXCEPT !.error = 180]
            ELSE [e2 EXCEPT
                    !.fig4 = groupby_mean(f, <<"Area">>, time),
                    !.late_df =
                        LET g == groupby_mean(f, <<"Weather">>, late)
                        IN [i \in 1..Len(g) |->
                              [key |-> g[i].key, Is_Late |-> g[i].value,
                               Late_pct |-> Mul(g[i].value, Num(100))]]]

charts(env) ==
    IF env.error # 0 THEN env
    ELSE LET f == env.filtered_df
             time == Col(f, "Delivery_Time")
             late == [i \in 1..Len(f.rows) |-> BoolNum(f.rows[i]["Is_Late"])]
             e2 == [env EXCEPT
                      !.fig1 = groupby_mean(f, <<"Weather", "Traffic">>, time),
                      !.fig2 = groupby_mean(f, <<"Vehicle">>, time)]
         IN IF "Agent_Rating" \notin f.columns THEN [e2 EXCEPT !.error = 180]
            ELSE [e2 EXCEPT
                    !.fig4 = groupby_mean(f, <<"Area">>, time),
                    !.late_df =
                        LET g == groupby_mean(f, <<"Weather">>, late)
                        IN [i \in 1..Len(g) |->
                              [key |-> g[i].key, Is_Late |-> g[i].value,
                               Late_pct |-> Mul(g[i].value, Num(100))]]]

\* One execution of the script, top to bottom.
Script(file, widgets) ==
    charts(kpi_cards(apply_filters(sidebar(apply_age_group(lateness(
        fill_agent_age(fill_agent_rating(fill_categorical(
            Start(file, widgets))))))))))

\* ------------------------------------------------------------ the CSV file
Columns ==
    {"Weather", "Traffic", "Vehicle", "Area", "Category",
     "Agent_Rating", "Agent_Age", "Delivery_Time"}

Record(w, t, v, a, c, rating, age, time) ==
    [Weather |-> w, Traffic |-> t, Vehicle |-> v, Area |-> a, Category |-> c,
     Agent_Rating |-> rating, Agent_Age |-> age, Delivery_Time |-> time]

\* The data lines a file is made of.
CsvLines ==
    <<Record("Sunny", "High", "bike", "Urban", "Food", Num(4), Num(24), Num(10)),
      Record("Sunny", "Low", "van", "Urban", "Food", Num(5), Num(25), Num(20)),
      Record(NULL, "High", "bike", NULL, "Toys", NaN, NaN, Num(30)),
      Record("sunny", NULL, "van", "Urban", NULL, Num(3), Num(40), Num(100)),
      Record("Sunny", "Low", NULL, "Urban", "Toys", Num(5), Num(41), NaN),
      Record("sunny", "High", "bike", NULL, "Food", NaN, NaN, Num(65))>>

\* pd.read_csv: the header's columns, one row per data line, RangeIndex.
read_csv(lines, header) ==
    [columns |-> header,
     rows |-> [i \in 1..Len(lines) |->
                 [k \in header \cup {"index"} |->
                     IF k = "index" THEN i - 1 ELSE lines[i][k]]]]

\* A file holds 1..MaxRows of the lines, in the order of CsvLines; the file
\* of the first four lines has Delivery_Time 10, 20, 30, 100.
Picks ==
    {p \in UNION {[1..n -> 1..Len(CsvLines)] : n \in 1..MaxRows} :
        \A i \in 1..(Len(p) - 1) : p[i] < p[i + 1]} \cup {<<1, 2, 3, 4>>}

Lines(p) == [i \in 1..Len(p) |-> CsvLines[p[i]]]

\* A complete file, or a one-line file whose header lacks one column.
CsvFiles ==
    {read_csv(Lines(p), Columns) : p \in Picks}
    \cup {read_csv(<<CsvLines[j]>>, Columns \ {c}) :
            j \in 1..Len(CsvLines), c \in Columns}

\* ------------------------------------------------------------------- state
VARIABLES
    csv,                \* load_data(): the cached content of the CSV file
    sel,                \* the five selectboxes' values
    df, avg_delivery_time, std_delivery_time, late_percentage,
    opts,               \* the option list of each selectbox
    filtered_df,
    k3,                 \* the "Records (Filtered)" KPI
    fig1, fig2, fig4, late_df,
    error,              \* line of the exception that ended the run, or 0
    started             \* the script has run in this session

vars == <<csv, sel, df, avg_delivery_time, std_delivery_time, late_percentage,
          opts, filtered_df, k3, fig1, fig2, fig4, late_df, error, started>>

\* The globals a run of the script leaves behind.
Ran(env) ==
    /\ sel' = env.sel
    /\ df' = env.df
    /\ avg_delivery_time' = env.avg_delivery_time
    /\ std_delivery_time' = env.std_delivery_time
    /\ late_percentage' = env.late_percentage
    /\ opts' = env.opts
    /\ filtered_df' = env.filtered_df
    /\ k3' = env.k3
    /\ fig1' = env.fig1
    /\ fig2' = env.fig2
    /\ fig4' = env.fig4
    /\ late_df' = env.late_df
    /\ error' = env.error

\* The first run of a session: every selectbox shows its first option.
Init ==
    /\ csv \in CsvFiles
    /\ sel = AllSel
    /\ df = NoFrame
    /\ avg_delivery_time = NaN
    /\ std_delivery_time = NaN
    /\ late_percentage = NaN
    /\ opts = [c \in Range(cat_cols) |-> <<>>]
    /\ filtered_df = NoFrame
    /\ k3 = 0
    /\ fig1 = <<>>
    /\ fig2 = <<>>
    /\ fig4 = <<>>
    /\ late_df = <<>>
    /\ error = 0
    /\ started = FALSE

\* Streamlit runs the script again with the session's widget state.
Rerun(widgets) ==
    /\ csv' = csv
    /\ started' = TRUE
    /\ Ran(Script(csv, widgets))

\* The session opens: the first run, every selectbox at its first option.
Open ==
    /\ ~started
    /\ Rerun(sel)

\* The user picks another option of a rendered selectbox.
SelectWeather ==
    \E v \in Range(opts["Weather"]) :
        v # sel["Weather"] /\ Rerun([sel EXCEPT !["Weather"] = v])

SelectTraffic ==
    \E v \in Range(opts["Traffic"]) :
        v # sel["Traffic"] /\ Rerun([sel EXCEPT !["Traffic"] = v])

SelectVehicle ==
    \E v \in Range(opts["Vehicle"]) :
        v # sel["Vehicle"] /\ Rerun([sel EXCEPT !["Vehicle"] = v])

SelectArea ==
    \E v \in Range(opts["Area"]) :
        v # sel["Area"] /\ Rerun([sel EXCEPT !["Area"] = v])

SelectCategory ==
    \E v \in Range(opts["Category"]) :
        v # sel["Category"] /\ Rerun([sel EXCEPT !["Category"] = v])

Next ==
    \/ Open
    \/ SelectWeather
    \/ SelectTraffic
    \/ SelectVehicle
    \/ SelectArea
    \/ SelectCategory

Spec == Init /\ [][Next]_vars

\* ================================================================== claims
\* The run reached the filters (it ended normally, or at the scatter plot).
FilterReached == started /\ error \in {0, 180}

IsLateOf(frame) ==
    IF "Is_Late" \in frame.columns THEN Col(frame, "Is_Late") ELSE <<>>

LateCount(frame) == Cardinality({i \in 1..Len(frame.rows) : IsLateOf(frame)[i]})

\* C1: the lateness threshold (mean, standard deviation), late_percentage and
\* every row's Is_Late flag are the same after every selection as before it,
\* and late_percentage is 100 x (late rows / rows) of the full table.
C1_LatenessFixed ==
    /\ [](started /\ "Is_Late" \in df.columns =>
            /\ Len(df.rows) = Len(csv.rows)
            /\ late_percentage = Rat(100 * LateCount(df), Len(df.rows)))
    /\ [][started =>
            /\ avg_delivery_time' = avg_delivery_time
            /\ std_delivery_time' = std_delivery_time
            /\ late_percentage' = late_percentage
            /\ IsLateOf(df') = IsLateOf(df)]_vars

\* C1 witness: a selection is in force whose view has another late rate than
\* the full table.
C1_Witness ==
    /\ started /\ error = 0 /\ sel # AllSel
    /\ Len(filtered_df.rows) > 0
    /\ LateCount(df) > 0
    /\ LateCount(filtered_df) * Len(df.rows)
         # LateCount(df) * Len(filtered_df.rows)

Match(r) == \A c \in Range(cat_cols) : sel[c] = "All" \/ r[c] = sel[c]

\* C2: the filtered view is exactly the rows of the derived table that equal
\* the selected value on every column whose selection is not "All", in table
\* order; with one column C filtered by V, rows kept + rows with C # V = rows.
C2_FilterExact ==
    FilterReached =>
        /\ filtered_df.columns = df.columns
        /\ Range(filtered_df.rows) = {r \in Range(df.rows) : Match(r)}
        /\ \A i \in 1..(Len(filtered_df.rows) - 1) :
              filtered_df.rows[i]["index"] < filtered_df.rows[i + 1]["index"]
        /\ \A c \in Range(cat_cols) :
              /\ sel[c] # "All" =>
                    \A i \in 1..Len(filtered_df.rows) :
                        filtered_df.rows[i][c] = sel[c]
              /\ (sel[c] # "All" /\ \A d \in Range(cat_cols) \ {c} : sel[d] = "All")
                    => Len(filtered_df.rows)
                         + Cardinality({i \in 1..Len(df.rows) :
                                           df.rows[i][c] # sel[c]})
                       = Len(df.rows)

\* C2 witness: Weather = "Sunny" with a "sunny" row in the table, a second
\* filter in force, and rows of both kinds: kept and removed.
C2_Witness ==
    /\ FilterReached
    /\ sel["Weather"] = "Sunny"
    /\ \E i \in 1..Len(df.rows) : df.rows[i]["Weather"] = "sunny"
    /\ \E c \in Range(cat_cols) \ {"Weather"} : sel[c] # "All"
    /\ Len(filtered_df.rows) > 0
    /\ Len(filtered_df.rows) < Len(df.rows)

\* C3: with "All" selected on all five filters the filtered view is the full
\* derived table, row for row, and the row count KPI is the table's size.
C3_AllIsIdentity ==
    (FilterReached /\ sel = AllSel) =>
        /\ filtered_df = df
        /\ k3 = Len(df.rows)

\* C3 witness: a run with "All" everywhere on a table of three or more rows.
C3_Witness ==
    /\ started /\ error = 0 /\ sel = AllSel
    /\ Len(df.rows) >= 3
    /\ k3 = Len(df.rows)

\* C4: after derivation every categorical column of the file is in the table
\* without a null: a null cell has become "Unknown", any other cell is as in
\* the file; a column the file lacks is passed over and the loop raises
\* nothing (the run goes on past line 92).
C4_NoNullCategory ==
    started =>
        /\ Len(df.rows) = Len(csv.rows)
        /\ \A c \in Range(cat_cols) :
              IF c \in csv.columns
              THEN /\ c \in df.columns
                   /\ \A i \in 1..Len(csv.rows) :
                         /\ df.rows[i][c] # NULL
                         /\ df.rows[i][c] = IF csv.rows[i][c] = NULL
                                            THEN "Unknown"
                                            ELSE csv.rows[i][c]
              ELSE /\ c \notin df.columns
                   /\ error \notin 89..92

\* C4 witness: the file lacks one categorical column and has a null cell in
\* another, which reads "Unknown" after derivation.
C4_Witness ==
    /\ started
    /\ \E c \in Range(cat_cols) : c \notin csv.columns
    /\ \E d \in Range(cat_cols) \cap csv.columns :
          \E i \in 1..Len(csv.rows) :
              csv.rows[i][d] = NULL /\ df.rows[i][d] = "Unknown"

\* C5: every numeric age has the bucket of its interval: "<25" below 25,
\* "25-40" from 25 to 40 inclusive, "40+" above 40; so 24, 25, 40 and 41 get
\* "<25", "25-40", "25-40" and "40+".
C5_AgeBuckets ==
    (started /\ "Agent_Age_Group" \in df.columns) =>
        \A i \in 1..Len(df.rows) :
            LET a == df.rows[i]["Agent_Age"]
                g == df.rows[i]["Agent_Age_Group"]
            IN ~isna(a) =>
                 /\ g \in {"<25", "25-40", "40+"}
                 /\ (g = "<25") = (a[1] < 25 * a[2])
                 /\ (g = "25-40") = (25 * a[2] <= a[1] /\ a[1] <= 40 * a[2])
                 /\ (g = "40+") = (a[1] > 40 * a[2])
                 /\ (a = <<24, 1>> => g = "<25")
                 /\ (a = <<25, 1>> => g = "25-40")
                 /\ (a = <<40, 1>> => g = "25-40")
                 /\ (a = <<41, 1>> => g = "40+")

\* C5 witness: a table with the boundary ages 25 and 40, both in "25-40",
\* next to an age below 25 or above 40.
C5_Witness ==
    /\ started /\ "Agent_Age_Group" \in df.columns
    /\ \E i, j, k \in 1..Len(df.rows) :
          /\ df.rows[i]["Agent_Age"] = <<25, 1>>
          /\ df.rows[i]["Agent_Age_Group"] = "25-40"
          /\ df.rows[j]["Agent_Age"] = <<40, 1>>
          /\ df.rows[j]["Agent_Age_Group"] = "25-40"
          /\ df.rows[k]["Agent_Age_Group"] # "25-40"

RECURSIVE SumInt(_)
SumInt(s) == IF Len(s) = 0 THEN 0 ELSE Head(s) + SumInt(Tail(s))

\* x > mean + sample standard deviation of the integers xs, in integers:
\* with n values of sum S and sum of squares Q, x - S/n > 0 and
\* (x - S/n)^2 > (Q - S^2/n) / (n - 1).
ExceedsMeanPlusStd(x, xs) ==
    LET n == Len(xs)
        S == SumInt(xs)
        Q == SumInt([i \in 1..n |-> xs[i] * xs[i]])
    IN /\ n >= 2
       /\ n * x > S
       /\ (n * x - S) * (n * x - S) * (n - 1) > n * (n * Q - S * S)

FileTimes == Col(csv, "Delivery_Time")
FileTimeValues ==
    LET v == SelectSeq(FileTimes, LAMBDA t : t # NaN)
    IN [i \in 1..Len(v) |-> v[i][1]]

\* C6: a row is late exactly when its Delivery_Time is strictly above the
\* mean plus one sample standard deviation of Delivery_Time over the whole
\* file; of the rows 10, 20, 30, 100 only the row with 100 is late.
C6_LateIffAboveThreshold ==
    (started /\ "Is_Late" \in df.columns) =>
        /\ \A i \in 1..Len(df.rows) :
              df.rows[i]["Is_Late"] =
                 (/\ FileTimes[i] # NaN
                  /\ ExceedsMeanPlusStd(FileTimes[i][1], FileTimeValues))
        /\ FileTimes = <<Num(10), Num(20), Num(30), Num(100)>>
              => IsLateOf(df) = <<FALSE, FALSE, FALSE, TRUE>>

\* C6 witness: the file 10, 20, 30, 100 with a filter in force that hides
\* rows, the last row late and no other.
C6_Witness ==
    /\ started /\ error = 0
    /\ FileTimes = <<Num(10), Num(20), Num(30), Num(100)>>
    /\ IsLateOf(df) = <<FALSE, FALSE, FALSE, TRUE>>
    /\ Len(filtered_df.rows) < Len(df.rows)

\* The selectbox of column c was drawn in the last run.
Rendered(c) ==
    /\ started /\ error \notin {100, 110}
    /\ \A j \in 1..Len(cat_cols) :
          (\E k \in j..Len(cat_cols) : cat_cols[k] = c)
              => cat_cols[j] \in df.columns

\* C7: each filter offers "All" followed by the distinct values of its column
\* in the full derived table, in ascending order, and the lists are the same
\* after every selection.
C7_OptionsFixed ==
    /\ [](\A c \in Range(cat_cols) :
            Rendered(c) =>
                /\ opts[c][1] = "All"
                /\ Range(Tail(opts[c])) = Range(Col(df, c))
                /\ \A i \in 2..(Len(opts[c]) - 1) :
                      StrLt(opts[c][i], opts[c][i + 1]))
    /\ [][started => opts' = opts]_vars

\* C7 witness: a filter is in force and another filter still offers a value
\* that no row of the current view has.
C7_Witness ==
    /\ started /\ error = 0
    /\ Len(filtered_df.rows) > 0
    /\ \E c \in Range(cat_cols) :
          /\ sel[c] = "All"
          /\ \E i \in 2..Len(opts[c]) :
                opts[c][i] \notin Range(Col(filtered_df, c))

KeysOf(fig) == {fig[g].key : g \in 1..Len(fig)}
ViewKeys(keys) ==
    {[j \in 1..Len(keys) |-> filtered_df.rows[i][keys[j]]] :
        i \in 1..Len(filtered_df.rows)}
GroupsOfView(fig, keys) ==
    /\ KeysOf(fig) = ViewKeys(keys)
    /\ Len(fig) = Cardinality(ViewKeys(keys))

\* C8: a selection matching no row ends the run normally with every group-by
\* result empty; in general a key is in a group-by result exactly when a row
\* of the filtered view has it, once.
C8_GroupsOfView ==
    /\ FilterReached =>
          /\ GroupsOfView(fig1, <<"Weather", "Traffic">>)
          /\ GroupsOfView(fig2, <<"Vehicle">>)
    /\ (started /\ error = 0) =>
          /\ GroupsOfView(fig4, <<"Area">>)
          /\ GroupsOfView(late_df, <<"Weather">>)
    /\ (FilterReached /\ Len(filtered_df.rows) = 0
          /\ "Agent_Rating" \in csv.columns)
          => /\ error = 0
             /\ fig1 = <<>> /\ fig2 = <<>> /\ fig4 = <<>> /\ late_df = <<>>

\* C8 witness: two selections that no row satisfies together.
C8_Witness ==
    /\ started /\ error = 0
    /\ Len(df.rows) > 0
    /\ Len(filtered_df.rows) = 0
    /\ fig2 = <<>> /\ late_df = <<>>

\* C9 (as claimed): a row whose Agent_Age is still missing after imputation
\* gets none of the three buckets.
C9_InvalidAgeExcluded ==
    (started /\ "Agent_Age_Group" \in df.columns) =>
        \A i \in 1..Len(df.rows) :
            isna(df.rows[i]["Agent_Age"]) =>
                df.rows[i]["Agent_Age_Group"] \notin {"<25", "25-40", "40+"}

\* C10 (as claimed): Delivery_Time is as in the file, a row without one has
\* no definite late flag, and late_percentage counts only the rows with one.
C10_NullTimeUndefined ==
    (started /\ "Is_Late" \in df.columns) =>
        /\ Col(df, "Delivery_Time") = FileTimes
        /\ \A i \in 1..Len(df.rows) :
              isna(df.rows[i]["Delivery_Time"]) =>
                  df.rows[i]["Is_Late"] \notin BOOLEAN
        /\ late_percentage =
              DivInt(Num(100 * LateCount(df)), Len(FileTimeValues))

====
